---- MODULE Spec2Model ----
(***************************************************************************)
(* OptionletStripper (ql/voltermstructures/interestrate/caplet/            *)
(* optionletstripper.cpp): construction of the optionlet/capfloor ladder,  *)
(* normalisation of the switch strikes, and the stripping pass             *)
(* performCalculations() run by the lazy-object machinery.                 *)
(*                                                                         *)
(* Units.  Periods are whole months.  Rates and strikes are in percent     *)
(* (0.04 is 4), standard deviations and volatilities in hundredths         *)
(* (0.14 is 14).  Prices are values of a small binary floating-point       *)
(* format (MantBits significant bits, round to nearest even) standing for  *)
(* the C++ type Real = double: a subtraction or an addition of two prices  *)
(* rounds its exact result to that format.                                 *)
(*                                                                         *)
(* External collaborators (the volatility surface, the cap/floor pricing   *)
(* engine, the Black implied-standard-deviation solver) are black boxes:   *)
(* what they return in one pass is drawn from small sets.  The forward     *)
(* rate, the annuity and the fixing dates only feed the solver and are not *)
(* kept.                                                                   *)
(***************************************************************************)
EXTENDS Integers, Sequences, FiniteSets

VARIABLES
    indexTenor,         \* index->tenor()
    maxCapFloorTenor,   \* surface->optionTenors().back()
    strikes,            \* surface->strikes()
    switchArg,          \* the constructor's switchStrikes argument
    phase,              \* "new" | "constructed" | "failed" (the constructor threw)
    error,              \* the QL_REQUIRE that failed in the constructor
    optionletTenors_,
    capfloorLengths_,
    nOptionletTenors_,
    switchStrikes_,
    capfloorPrices_,
    optionletPrices_,
    capfloorVols_,
    optionletVols_,
    optionletStDevs_,
    capfloors_,
    calculated_,        \* LazyObject's flag: TRUE is Fresh, FALSE is Stale
    calls,              \* the solver calls of the latest pass, in order
    lastPass,           \* "none" | "ok" | "failed": how the latest pass ended
    lastOp,             \* the latest operation and how it ended
    passes              \* number of passes run so far

vars == <<indexTenor, maxCapFloorTenor, strikes, switchArg, phase, error,
          optionletTenors_, capfloorLengths_, nOptionletTenors_, switchStrikes_,
          capfloorPrices_, optionletPrices_, capfloorVols_, optionletVols_,
          optionletStDevs_, capfloors_, calculated_, calls, lastPass, lastOp,
          passes>>

grids == <<capfloorPrices_, optionletPrices_, capfloorVols_, optionletVols_,
           optionletStDevs_>>

(***************************************************************************)
(* Bounds of the model                                                     *)
(***************************************************************************)
MaxTenor == 6
MaxMaturity == 24
MaxSwitchLen == 3
MantBits == 2
MaxPasses == 2

(***************************************************************************)
(* Program constants                                                       *)
(***************************************************************************)
FirstGuess == 14
DefaultSwitchStrike == 4
\* Matrix(rows, columns) leaves its elements uninitialized; no element is read
\* before performCalculations() has written it, so one token stands for them.
Unset == -99

Last(s) == s[Len(s)]

Matrix(rows, columns, value) == [i \in 1..rows |-> [j \in 1..columns |-> value]]

EmptyMatrix == <<>>

nStrikes_ == Len(strikes)

\* optionletStDevs_[i][j] / std::sqrt(optionletTimes_[i]) (lines 142-143),
\* kept as the pair of its operands
VolOf(stdDev, time) == [stdDev |-> stdDev, time |-> time]

(***************************************************************************)
(* Real arithmetic: rounding to MantBits significant bits, ties to even    *)
(***************************************************************************)
Abs(x) == IF x < 0 THEN -x ELSE x

RECURSIVE Pow2(_)
Pow2(n) == IF n = 0 THEN 1 ELSE 2 * Pow2(n - 1)

RECURSIVE UlpOf(_, _)
UlpOf(a, q) == IF a < q * Pow2(MantBits) THEN q ELSE UlpOf(a, 2 * q)

RoundReal(x) ==
    LET a == Abs(x)
        q == UlpOf(a, 1)
        r == a % q
        down == a - r
        up == down + q
        n == IF 2 * r < q THEN down
             ELSE IF 2 * r > q THEN up
             ELSE IF (down \div q) % 2 = 0 THEN down ELSE up
    IN  IF x < 0 THEN -n ELSE n

RealSub(a, b) == RoundReal(a - b)

RealAdd(a, b) == RoundReal(a + b)

(***************************************************************************)
(* Constructor: the ladder (lines 42-54)                                   *)
(***************************************************************************)
CapfloorLengthOf_tenorOnly(optionletTenor, tenor) == optionletTenor

CapfloorLengthOf(optionletTenor, tenor) == optionletTenor + tenor

SurfaceLongEnough_strict(maxTenor, firstLength) == maxTenor > firstLength

SurfaceLongEnough(maxTenor, firstLength) == maxTenor >= firstLength

LadderContinues_strict(lastLength, tenor, maxTenor) == lastLength + tenor < maxTenor

LadderContinues(lastLength, tenor, maxTenor) == lastLength + tenor <= maxTenor

RECURSIVE ExtendLadder(_, _, _, _)
ExtendLadder(ot, cl, tenor, maxTenor) ==
    IF LadderContinues(Last(cl), tenor, maxTenor)
    THEN LET ot2 == Append(ot, Last(ot) + tenor)
         IN  ExtendLadder(ot2, Append(cl, CapfloorLengthOf(Last(ot2), tenor)),
                          tenor, maxTenor)
    ELSE [optionletTenors |-> ot, capfloorLengths |-> cl]

(***************************************************************************)
(* Constructor: the switch strikes (lines 36, 68-72)                       *)
(***************************************************************************)
NormalizeSwitchStrikes(arg, n) ==
    LET s1 == IF Len(arg) = 1 THEN [i \in 1..n |-> arg[1]] ELSE arg
    IN  IF arg = <<>> THEN [i \in 1..n |-> DefaultSwitchStrike] ELSE s1

SwitchSizeOk_unchecked(n, sw) == TRUE

SwitchSizeOk(n, sw) == n = Len(sw)

(***************************************************************************)
(* The constructor as a whole.  A failed QL_REQUIRE leaves the members as  *)
(* they are at the throw: the grids are still the default-constructed      *)
(* empty matrices when the surface is too short.                           *)
(***************************************************************************)
OptionletStripper(tenor, maxTenor, nStrikes, arg) ==
    LET ot0 == <<tenor>>
        cl0 == <<CapfloorLengthOf(Last(ot0), tenor)>>
        unbuilt == [error |-> "too short capfloor term vol surface",
                    optionletTenors |-> ot0, capfloorLengths |-> cl0, n |-> 0,
                    switchStrikes |-> arg,
                    capfloorPrices |-> EmptyMatrix, optionletPrices |-> EmptyMatrix,
                    capfloorVols |-> EmptyMatrix, optionletVols |-> EmptyMatrix,
                    optionletStDevs |-> EmptyMatrix, capfloors |-> <<>>]
    IN  IF ~SurfaceLongEnough(maxTenor, Last(cl0)) THEN unbuilt
        ELSE LET lad == ExtendLadder(ot0, cl0, tenor, maxTenor)
                 n == Len(lad.optionletTenors)
                 sw == NormalizeSwitchStrikes(arg, n)
             IN  [error |-> IF SwitchSizeOk(n, sw) THEN "none"
                            ELSE "nOptionletTenors_!=switchStrikes_.size()",
                  optionletTenors |-> lad.optionletTenors,
                  capfloorLengths |-> lad.capfloorLengths,
                  n |-> n,
                  switchStrikes |-> sw,
                  capfloorPrices |-> Matrix(n, nStrikes, Unset),
                  optionletPrices |-> Matrix(n, nStrikes, Unset),
                  capfloorVols |-> Matrix(n, nStrikes, Unset),
                  optionletVols |-> Matrix(n, nStrikes, VolOf(Unset, Unset)),
                  optionletStDevs |-> Matrix(n, nStrikes, FirstGuess),
                  capfloors |-> [i \in 1..n |-> <<>>]]

Construct ==
    /\ phase = "new"
    /\ LET o == OptionletStripper(indexTenor, maxCapFloorTenor, nStrikes_, switchArg)
       IN  /\ phase' = IF o.error = "none" THEN "constructed" ELSE "failed"
           /\ error' = o.error
           /\ optionletTenors_' = o.optionletTenors
           /\ capfloorLengths_' = o.capfloorLengths
           /\ nOptionletTenors_' = o.n
           /\ switchStrikes_' = o.switchStrikes
           /\ capfloorPrices_' = o.capfloorPrices
           /\ optionletPrices_' = o.optionletPrices
           /\ capfloorVols_' = o.capfloorVols
           /\ optionletVols_' = o.optionletVols
           /\ optionletStDevs_' = o.optionletStDevs
           /\ capfloors_' = o.capfloors
    /\ lastOp' = "OptionletStripper"
    /\ UNCHANGED <<indexTenor, maxCapFloorTenor, strikes, switchArg, calculated_,
                   calls, lastPass, passes>>

(***************************************************************************)
(* What the collaborators answer during one pass                           *)
(***************************************************************************)
PriceSet == {1, 6}

VolBase == 20

SolverFailure == [ok |-> FALSE, stdDev |-> 0]

SolverResults == {SolverFailure, [ok |-> TRUE, stdDev |-> 10]}

\* surface_->volatility(capfloorLengths_[i], strikes[j], true): a flat or a
\* sloped surface
VolSurfaces(n, m) ==
    {[i \in 1..n |-> [j \in 1..m |-> VolBase + slope * (i + j)]] : slope \in {0, 1}}

\* capfloors_[i][j]->NPV(), for every cell
NpvGrids(n, m) == [1..n -> [1..m -> PriceSet]]

\* blackFormulaImpliedStdDev(...): returns a standard deviation or throws.
\* The solver is not called again in a pass once it has thrown, so the cells
\* after the first failure (in the order of the pass) carry no further choice.
SolverGrids(n, m) ==
    {s \in [1..n -> [1..m -> SolverResults]] :
        \A i \in 1..n : \A j \in 1..m :
            s[i][j].ok =>
                \A i2 \in 1..n : \A j2 \in 1..m :
                    (j2 - 1) * n + i2 < (j - 1) * n + i => s[i2][j2].ok}

MarketInputs(n, m) ==
    [vol : VolSurfaces(n, m), npv : NpvGrids(n, m), solver : SolverGrids(n, m)]

(***************************************************************************)
(* performCalculations (lines 75-148)                                      *)
(***************************************************************************)
NullCapFloor == [type |-> "null", length |-> 0, strike |-> 0, vol |-> 0]

\* capfloors_[i].resize(nStrikes_) (line 95)
Resize(row, m) == [j \in 1..m |-> IF j <= Len(row) THEN row[j] ELSE NullCapFloor]

\* optionletTimes_[i] (lines 84-93): the last fixing of a cap of length
\* capfloorLengths_[i] on the index lies one index tenor before its maturity
OptionletTime(i) == capfloorLengths_[i] - indexTenor

CapFloorTypeOf_inclusive(strike, switchStrike) ==
    IF strike <= switchStrike THEN "Floor" ELSE "Cap"

\* lines 104-105
CapFloorTypeOf(strike, switchStrike) ==
    IF strike < switchStrike THEN "Floor" ELSE "Cap"

\* lines 106-107
OptionletTypeOf(capFloorType) == IF capFloorType = "Floor" THEN "Put" ELSE "Call"

ColumnStartPrice_carried(previous) == previous

\* line 101: Real previousCapFloorPrice = 0.0 at the top of each strike column
ColumnStartPrice(previous) == 0

\* lines 118-119
OptionletPrice(capfloorPrice, previousCapFloorPrice) ==
    RealSub(capfloorPrice, previousCapFloorPrice)

SolverGuess_previousCell(stDevs, i, j) == IF i > 1 THEN stDevs[i - 1][j] ELSE stDevs[i][j]

\* line 131: the guess is the cell's own standard deviation
SolverGuess(stDevs, i, j) == stDevs[i][j]

PassAborted_swallowed(g) == FALSE

\* lines 132-141: QL_FAIL in the catch block leaves both loops
PassAborted(g) == g.failed

\* lines 104-143, one cell
StripCell(g, i, j, in) ==
    LET capFloorType == CapFloorTypeOf(strikes[j], switchStrikes_[i])
        optionletType == OptionletTypeOf(capFloorType)
        vol == in.vol[i][j]
        npv == in.npv[i][j]
        price == OptionletPrice(npv, g.previousCapFloorPrice)
        guess == SolverGuess(g.optionletStDevs, i, j)
        res == in.solver[i][j]
        call == [i |-> i, j |-> j, capFloorType |-> capFloorType,
                 optionletType |-> optionletType, price |-> price,
                 guess |-> guess, result |-> res]
        g1 == [g EXCEPT !.capfloorVols[i][j] = vol,
                        !.capfloors[i][j] = [type |-> capFloorType,
                                             length |-> capfloorLengths_[i],
                                             strike |-> strikes[j], vol |-> vol],
                        !.capfloorPrices[i][j] = npv,
                        !.optionletPrices[i][j] = price,
                        !.previousCapFloorPrice = npv,
                        !.calls = Append(@, call)]
    IN  IF res.ok
        THEN [g1 EXCEPT !.optionletStDevs[i][j] = res.stdDev,
                        !.optionletVols[i][j] = VolOf(res.stdDev, OptionletTime(i))]
        ELSE [g1 EXCEPT !.failed = TRUE]

\* line 102: for (Size i=0; i<nOptionletTenors_; ++i)
RECURSIVE StripRows(_, _, _, _)
StripRows(g, i, j, in) ==
    IF PassAborted(g) \/ i > nOptionletTenors_ THEN g
    ELSE StripRows(StripCell(g, i, j, in), i + 1, j, in)

\* line 100: for (Size j=0; j<nStrikes_; ++j)
RECURSIVE StripColumns(_, _, _)
StripColumns(g, j, in) ==
    IF PassAborted(g) \/ j > nStrikes_ THEN g
    ELSE StripColumns(
             StripRows([g EXCEPT !.previousCapFloorPrice = ColumnStartPrice(@)],
                       1, j, in),
             j + 1, in)

performCalculations(in) ==
    StripColumns([capfloorPrices |-> capfloorPrices_,
                  optionletPrices |-> optionletPrices_,
                  capfloorVols |-> capfloorVols_,
                  optionletVols |-> optionletVols_,
                  optionletStDevs |-> optionletStDevs_,
                  capfloors |-> [i \in 1..nOptionletTenors_ |->
                                    Resize(capfloors_[i], nStrikes_)],
                  previousCapFloorPrice |-> 0,
                  calls |-> <<>>,
                  failed |-> FALSE],
                 1, in)

\* The members after a pass that ended with `g`
Publish(g) ==
    /\ capfloorPrices_' = g.capfloorPrices
    /\ optionletPrices_' = g.optionletPrices
    /\ capfloorVols_' = g.capfloorVols
    /\ optionletVols_' = g.optionletVols
    /\ optionletStDevs_' = g.optionletStDevs
    /\ capfloors_' = g.capfloors
    /\ calls' = g.calls
    /\ lastPass' = IF g.failed THEN "failed" ELSE "ok"
    /\ passes' = passes + 1

(***************************************************************************)
(* LazyObject: calculate() and update()                                    *)
(***************************************************************************)
\* calculate(): runs the pass if Stale; Fresh after a pass that succeeded,
\* still Stale (and the exception passed on) after one that failed
calculate(op) ==
    IF calculated_
    THEN /\ lastOp' = op
         /\ UNCHANGED <<grids, capfloors_, calculated_, calls, lastPass, passes>>
    ELSE /\ passes < MaxPasses
         /\ \E in \in MarketInputs(nOptionletTenors_, nStrikes_) :
               LET g == performCalculations(in)
               IN  /\ Publish(g)
                   /\ calculated_' = ~g.failed
                   /\ lastOp' = IF g.failed THEN "threw" ELSE op

\* a notification from the surface, the index or the evaluation date
update ==
    /\ phase = "constructed"
    /\ calculated_
    /\ calculated_' = FALSE
    /\ lastOp' = "update"
    /\ UNCHANGED <<indexTenor, maxCapFloorTenor, strikes, switchArg, phase, error,
                   optionletTenors_, capfloorLengths_, nOptionletTenors_,
                   switchStrikes_, grids, capfloors_, calls, lastPass, passes>>

\* a read accessor of the computed grids
optionletVolatilities ==
    /\ phase = "constructed"
    /\ calculate("optionletVolatilities")
    /\ UNCHANGED <<indexTenor, maxCapFloorTenor, strikes, switchArg, phase, error,
                   optionletTenors_, capfloorLengths_, nOptionletTenors_,
                   switchStrikes_>>

(***************************************************************************)
(* strikes() and surface() (lines 150-156)                                 *)
(***************************************************************************)
strikes_calculating ==
    /\ phase = "constructed"
    /\ calculate("strikes")
    /\ UNCHANGED <<indexTenor, maxCapFloorTenor, strikes, switchArg, phase, error,
                   optionletTenors_, capfloorLengths_, nOptionletTenors_,
                   switchStrikes_>>

strikes_ ==
    /\ phase = "constructed"
    /\ lastOp' = "strikes"
    /\ UNCHANGED <<indexTenor, maxCapFloorTenor, strikes, switchArg, phase, error,
                   optionletTenors_, capfloorLengths_, nOptionletTenors_,
                   switchStrikes_, grids, capfloors_, calculated_, calls,
                   lastPass, passes>>

surface ==
    /\ phase = "constructed"
    /\ lastOp' = "surface"
    /\ UNCHANGED <<indexTenor, maxCapFloorTenor, strikes, switchArg, phase, error,
                   optionletTenors_, capfloorLengths_, nOptionletTenors_,
                   switchStrikes_, grids, capfloors_, calculated_, calls,
                   lastPass, passes>>

(***************************************************************************)
(* Specifications                                                          *)
(***************************************************************************)
SeqsUpTo(S, n) == UNION {[1..k -> S] : k \in 0..n}

InitObject ==
    /\ phase = "new"
    /\ error = "none"
    /\ optionletTenors_ = <<>>
    /\ capfloorLengths_ = <<>>
    /\ nOptionletTenors_ = 0
    /\ switchStrikes_ = <<>>
    /\ capfloorPrices_ = EmptyMatrix
    /\ optionletPrices_ = EmptyMatrix
    /\ capfloorVols_ = EmptyMatrix
    /\ optionletVols_ = EmptyMatrix
    /\ optionletStDevs_ = EmptyMatrix
    /\ capfloors_ = <<>>
    /\ calculated_ = FALSE
    /\ calls = <<>>
    /\ lastPass = "none"
    /\ lastOp = "none"
    /\ passes = 0

\* the stripper's life on a short ladder
Init ==
    /\ indexTenor = 3
    /\ maxCapFloorTenor \in {5, 6, 9}
    /\ strikes = <<3, 4>>
    /\ switchArg \in {<<>>, <<3, 5>>}
    /\ InitObject

Next ==
    \/ Construct
    \/ update
    \/ optionletVolatilities
    \/ strikes_
    \/ surface

Spec == Init /\ [][Next]_vars

\* construction alone, over every tenor, maturity and switch-strike argument
InitCtor ==
    /\ indexTenor \in 1..MaxTenor
    /\ maxCapFloorTenor \in 1..MaxMaturity
    /\ strikes = <<3, 4>>
    /\ switchArg \in SeqsUpTo({3, 5}, MaxSwitchLen)
    /\ InitObject

NextCtor == Construct

SpecCtor == InitCtor /\ [][NextCtor]_vars

(***************************************************************************)
(* Claims                                                                  *)
(***************************************************************************)
Rows == 1..nOptionletTenors_

Cols == 1..nStrikes_

Built == phase # "new" /\ error # "too short capfloor term vol surface"

\* C1: whenever 2*indexTenor <= maxCapFloorTenor the constructor builds a
\* ladder with as many optionlet tenors as capfloor lengths, at least one,
\* each length one index tenor after the one before, the last length within
\* the surface's maximum maturity and the ladder maximal; an index tenor of 3
\* months under a maximum of 24 gives tenors 3..21 and lengths 6..24.
C1_Ladder ==
    (phase # "new" /\ 2 * indexTenor <= maxCapFloorTenor) =>
        /\ Len(optionletTenors_) = Len(capfloorLengths_)
        /\ Len(capfloorLengths_) >= 1
        /\ nOptionletTenors_ = Len(optionletTenors_)
        /\ \A i \in 2..Len(capfloorLengths_) :
              /\ capfloorLengths_[i] = capfloorLengths_[i - 1] + indexTenor
              /\ capfloorLengths_[i] > capfloorLengths_[i - 1]
        /\ Last(capfloorLengths_) <= maxCapFloorTenor
        /\ Last(capfloorLengths_) + indexTenor > maxCapFloorTenor
        /\ (indexTenor = 3 /\ maxCapFloorTenor = 24) =>
              /\ optionletTenors_ = <<3, 6, 9, 12, 15, 18, 21>>
              /\ capfloorLengths_ = <<6, 9, 12, 15, 18, 21, 24>>

C1_Witness ==
    /\ phase = "constructed"
    /\ indexTenor = 3
    /\ maxCapFloorTenor = 24
    /\ nOptionletTenors_ = 7

\* C2 as stated: the capfloor length of period i (counted from 0) is
\* (i+1) * indexTenor, which for the 1-based position p = i+1 is p * indexTenor.
C2_Original ==
    phase = "constructed" =>
        \A p \in 1..Len(capfloorLengths_) : capfloorLengths_[p] = p * indexTenor

\* C2 amended: the capfloor length of period i (counted from 0) is
\* (i+2) * indexTenor, one index tenor after the optionlet tenor
\* (i+1) * indexTenor of the same period.
C2_Lengths ==
    Built =>
        \A p \in 1..Len(capfloorLengths_) :
            /\ optionletTenors_[p] = p * indexTenor
            /\ capfloorLengths_[p] = (p + 1) * indexTenor

C2_Witness ==
    /\ phase = "constructed"
    /\ nOptionletTenors_ >= 3
    /\ capfloorLengths_[3] = 4 * indexTenor

\* C5: a single supplied switch strike is broadcast to all N periods, none
\* supplied gives N copies of 0.04, any other argument is kept and the
\* construction fails unless it has N entries; so a constructed stripper has
\* exactly N switch strikes, N >= 1.
C5_SwitchStrikes ==
    /\ phase = "constructed" =>
          /\ nOptionletTenors_ >= 1
          /\ Len(switchStrikes_) = nOptionletTenors_
          /\ Len(switchArg) = 1 =>
                \A i \in Rows : switchStrikes_[i] = switchArg[1]
          /\ Len(switchArg) = 0 =>
                \A i \in Rows : switchStrikes_[i] = DefaultSwitchStrike
          /\ Len(switchArg) > 1 => switchStrikes_ = switchArg
    /\ Built =>
          (phase = "failed" <=>
              (Len(switchArg) > 1 /\ Len(switchArg) # nOptionletTenors_))

C5_Witness ==
    /\ phase = "constructed"
    /\ Len(switchArg) = 1
    /\ nOptionletTenors_ = 3
    /\ switchStrikes_ = <<5, 5, 5>>

Allocated(g) ==
    /\ Len(g) = nOptionletTenors_
    /\ nOptionletTenors_ >= 1
    /\ \A i \in Rows : Len(g[i]) = nStrikes_

\* C6: the constructor raises "too short capfloor term vol surface" exactly
\* when maxCapFloorTenor < 2 * indexTenor, and when it does none of the N x M
\* grids has been allocated.
C6_TooShort ==
    phase # "new" =>
        /\ (error = "too short capfloor term vol surface")
              <=> (maxCapFloorTenor < 2 * indexTenor)
        /\ (error = "too short capfloor term vol surface") =>
              /\ phase = "failed"
              /\ capfloorPrices_ = EmptyMatrix
              /\ optionletPrices_ = EmptyMatrix
              /\ capfloorVols_ = EmptyMatrix
              /\ optionletVols_ = EmptyMatrix
              /\ optionletStDevs_ = EmptyMatrix
        /\ (error # "too short capfloor term vol surface") =>
              /\ Allocated(capfloorPrices_)
              /\ Allocated(optionletPrices_)
              /\ Allocated(capfloorVols_)
              /\ Allocated(optionletVols_)
              /\ Allocated(optionletStDevs_)

C6_Witness ==
    /\ phase = "failed"
    /\ error = "too short capfloor term vol surface"
    /\ maxCapFloorTenor = 2 * indexTenor - 1

\* position of cell (i,j) in the order of the pass: strike columns outermost
CellIndex(i, j) == (j - 1) * nOptionletTenors_ + i

FirstFailure(cs) ==
    IF \E k \in DOMAIN cs : ~cs[k].result.ok
    THEN CHOOSE k \in DOMAIN cs :
            /\ ~cs[k].result.ok
            /\ \A l \in 1..(k - 1) : cs[l].result.ok
    ELSE 0

PassRan == passes' = passes + 1

CellUnchanged(i, j) ==
    /\ capfloorPrices_'[i][j] = capfloorPrices_[i][j]
    /\ optionletPrices_'[i][j] = optionletPrices_[i][j]
    /\ capfloorVols_'[i][j] = capfloorVols_[i][j]
    /\ optionletVols_'[i][j] = optionletVols_[i][j]
    /\ optionletStDevs_'[i][j] = optionletStDevs_[i][j]

\* C3 as stated: a pass that fails leaves every cell of the five grids at the
\* value it had after the last successful pass (here: a pass that fails right
\* after a successful one changes no cell).
C3_Original ==
    [][(PassRan /\ lastPass = "ok" /\ lastPass' = "failed") =>
           \A i \in Rows : \A j \in Cols : CellUnchanged(i, j)]_vars

\* C3 amended: a pass that fails at cell (i,j) leaves unchanged every cell
\* the pass had not reached yet, and the failing cell's optionletStDevs and
\* optionletVols; the cells it had already processed, and the failing cell's
\* capfloorVols, capfloorPrices and optionletPrices, hold what this pass wrote.
C3_FailedPass ==
    [][(PassRan /\ lastPass' = "failed") =>
           LET f == FirstFailure(calls')
           IN  /\ f = Len(calls')
               /\ f >= 1
               /\ \A i \in Rows : \A j \in Cols :
                     /\ CellIndex(i, j) > f => CellUnchanged(i, j)
                     /\ CellIndex(i, j) = f =>
                           /\ optionletStDevs_'[i][j] = optionletStDevs_[i][j]
                           /\ optionletVols_'[i][j] = optionletVols_[i][j]
                     /\ CellIndex(i, j) <= f =>
                           /\ calls'[CellIndex(i, j)].i = i
                           /\ calls'[CellIndex(i, j)].j = j
                           /\ optionletPrices_'[i][j] = calls'[CellIndex(i, j)].price
                           /\ capfloorVols_'[i][j] = capfloors_'[i][j].vol
                     /\ CellIndex(i, j) < f =>
                           optionletStDevs_'[i][j] =
                               calls'[CellIndex(i, j)].result.stdDev]_vars

\* a pass failed at its third cell after an earlier pass had succeeded, and
\* the first cell's price is no longer the one the earlier pass had left
C3_Witness ==
    /\ lastPass = "failed"
    /\ passes = 2
    /\ Len(calls) = 3
    /\ nOptionletTenors_ = 2
    /\ capfloorPrices_[2][2] # Unset
    /\ capfloorPrices_[1][1] # capfloorPrices_[2][2]

Accessors == {"strikes", "surface", "optionletVolatilities"}

\* C4 as stated: no accessor, strikes() and surface() included, returns while
\* the stripper is Stale.
C4_Original == lastOp \in Accessors => calculated_

\* C4 amended: strikes() and surface() only hand out the surface's data: they
\* run no pass, return whether the stripper is Stale or Fresh and leave its
\* state and grids as they are; an accessor of the computed grids returns
\* only when the stripper is Fresh.
C4_Accessors ==
    [][/\ lastOp' \in {"strikes", "surface"} =>
              /\ calculated_' = calculated_
              /\ passes' = passes
              /\ grids' = grids
              /\ calls' = calls
       /\ lastOp' = "optionletVolatilities" => calculated_']_vars

C4_Witness ==
    /\ lastOp = "strikes"
    /\ ~calculated_
    /\ lastPass = "ok"

\* the cumulative price rebuilt from the optionlet prices of column j, added
\* up from period 1 to period i
RECURSIVE SumOfOptionlets(_, _)
SumOfOptionlets(i, j) ==
    IF i = 0 THEN 0
    ELSE RealAdd(SumOfOptionlets(i - 1, j), optionletPrices_[i][j])

\* C7 as stated: after a successful pass the optionlet prices of a column add
\* up to the cumulative price, sum(optionletPrices[0..i][j]) ==
\* capfloorPrices[i][j], for every i and j.
C7_Original ==
    lastPass = "ok" =>
        \A i \in Rows : \A j \in Cols :
            SumOfOptionlets(i, j) = capfloorPrices_[i][j]

\* C7 amended: after a successful pass optionletPrices[i][j] is the Real
\* difference capfloorPrices[i][j] - capfloorPrices[i-1][j] of the prices of
\* that same pass (capfloorPrices[0][j] itself for the first period, the
\* previous price starting at 0 in every strike column); the sum of the
\* optionlet prices gives the cumulative price back exactly for the first
\* period, and beyond it only as far as Real rounding allows.
C7_Differencing ==
    lastPass = "ok" =>
        \A i \in Rows : \A j \in Cols :
            /\ optionletPrices_[i][j] =
                   RealSub(capfloorPrices_[i][j],
                           IF i = 1 THEN 0 ELSE capfloorPrices_[i - 1][j])
            /\ i = 1 => SumOfOptionlets(i, j) = capfloorPrices_[i][j]

\* a successful pass over two periods and two strikes whose second column
\* starts from a first-period price other than the last price of the first
\* column
C7_Witness ==
    /\ lastPass = "ok"
    /\ nOptionletTenors_ = 2
    /\ capfloorPrices_[2][1] = 6
    /\ capfloorPrices_[1][2] = 1
    /\ optionletPrices_[1][2] = 1
    /\ optionletPrices_[2][2] = 0

\* C8: every cell a pass processes is priced as a Floor and inverted as a Put
\* exactly when strikes[j] < switchStrikes[i], and as a Cap and a Call
\* otherwise (also when the two are equal); Floor never goes with Call nor
\* Cap with Put.
C8_TypeSelection ==
    \A k \in DOMAIN calls :
        LET c == calls[k]
            below == strikes[c.j] < switchStrikes_[c.i]
        IN  /\ c.capFloorType = capfloors_[c.i][c.j].type
            /\ below => (c.capFloorType = "Floor" /\ c.optionletType = "Put")
            /\ ~below => (c.capFloorType = "Cap" /\ c.optionletType = "Call")

C8_Witness ==
    /\ Len(calls) = 4
    /\ \E k \in DOMAIN calls :
          /\ strikes[calls[k].j] = switchStrikes_[calls[k].i]
          /\ calls[k].capFloorType = "Cap"
    /\ \E k \in DOMAIN calls :
          /\ strikes[calls[k].j] < switchStrikes_[calls[k].i]
          /\ calls[k].optionletType = "Put"

\* C9: optionletStDevs[i][j] is 0.14 after construction, and over any pass it
\* changes only to what the solver returned for that same cell; a cell whose
\* inversion failed keeps its value, and the guess the solver gets for a cell
\* is that cell's own value before the pass.
C9_WarmStart ==
    [][/\ (phase = "new" /\ phase' = "constructed") =>
              /\ FirstGuess > 0
              /\ \A i \in 1..nOptionletTenors_' : \A j \in Cols :
                    optionletStDevs_'[i][j] = FirstGuess
       /\ phase = "constructed" =>
              /\ \A i \in Rows : \A j \in Cols :
                    optionletStDevs_'[i][j] # optionletStDevs_[i][j] =>
                        /\ PassRan
                        /\ \E k \in DOMAIN calls' :
                              /\ calls'[k].i = i
                              /\ calls'[k].j = j
                              /\ calls'[k].result.ok
                              /\ optionletStDevs_'[i][j] = calls'[k].result.stdDev
              /\ PassRan =>
                    \A k \in DOMAIN calls' :
                        /\ calls'[k].guess =
                               optionletStDevs_[calls'[k].i][calls'[k].j]
                        /\ ~calls'[k].result.ok =>
                               optionletStDevs_'[calls'[k].i][calls'[k].j] =
                                   optionletStDevs_[calls'[k].i][calls'[k].j]
                        /\ \A l \in DOMAIN calls' :
                               (calls'[l].i = calls'[k].i /\ calls'[l].j = calls'[k].j)
                                   => l = k]_vars

\* in a second pass the solver is handed the result of the first pass for one
\* cell and still the first guess for the cell below it, whose inversion had
\* failed
C9_Witness ==
    /\ passes = 2
    /\ Len(calls) >= 2
    /\ calls[1].guess = 10
    /\ calls[2].guess = FirstGuess
    /\ ~calls[2].result.ok
    /\ optionletStDevs_[calls[2].i][calls[2].j] = FirstGuess

\* C10: in every strike column the two cumulative instruments whose prices
\* are differenced, the one of cell (i,j) and the one of cell (i-1,j), are of
\* the same type.
C10_SameType ==
    \A k \in DOMAIN calls : \A l \in DOMAIN calls :
        (calls[k].j = calls[l].j /\ calls[k].i = calls[l].i + 1) =>
            calls[k].capFloorType = calls[l].capFloorType

====
